---- MODULE Spec2Model ----
(***************************************************************************)
(* Model of the arithmetic-expression pipeline of src/main.go: the Lexer   *)
(* over a bufio.Reader, the recursive-descent parser (parseAddSubExpr /    *)
(* parseMulDivExpr / parsePrimaryExpr), the AST renderer and the           *)
(* evaluator, driven by main.                                              *)
(*                                                                         *)
(* Strings are sequences of one-character strings.  A call of log.Fatal    *)
(* ends the process: the operators that can reach one return the message   *)
(* in a field "fatal" ("" when the call returned normally).                *)
(***************************************************************************)
EXTENDS Integers, Sequences, FiniteSets, TLC

\* ------------------------------------------------------------------ bounds

\* longest input drawn from the whole alphabet
MaxLen == 3
\* most operators in a drawn input of the shape INT (op INT)* tail
MaxOps == 2
\* width of Go's int in the model (64 on the usual targets, scaled down so
\* that wraparound is within reach of the checker's integers)
IntBits == 8

\* ------------------------------------------------------------------ tokens

EOF == 0
ILLEGAL == 1
IDENT == 2
INT == 3
ADD == 4
SUB == 5
MUL == 6
DIV == 7

tokens ==
  [t \in EOF..DIV |->
     CASE t = EOF -> "EOF"
       [] t = ILLEGAL -> "ILLEGAL"
       [] t = IDENT -> "IDENT"
       [] t = INT -> "INT"
       [] t = ADD -> "+"
       [] t = SUB -> "-"
       [] t = MUL -> "*"
       [] t = DIV -> "/"]

\* ------------------------------------------------------------------ runes

DigitChars == <<"0", "1", "2", "3", "4", "5", "6", "7", "8", "9">>

\* unicode.IsDigit, on the runes of the model's alphabet
IsDigit(r) == \E i \in 1..Len(DigitChars) : DigitChars[i] = r

\* IsSpace with the blank forgotten
IsSpaceNoBlank(r) == r \in {"\t", "\n", "\r"}

\* unicode.IsSpace, on the runes of the model's alphabet
IsSpace(r) == r \in {" ", "\t", "\n", "\r"}

\* ------------------------------------------------------------------ bufio.Reader

\* bufio.NewReader over a stream holding buf; r counts the runes read
NewReader(buf) == [buf |-> buf, r |-> 0, lastRuneSize |-> -1]

\* bufio.Reader.ReadRune: lastRuneSize is reset before the end-of-input test
ReadRune(rd) ==
  IF rd.r = Len(rd.buf)
  THEN [r |-> "", err |-> "EOF", reader |-> [rd EXCEPT !.lastRuneSize = -1]]
  ELSE [r |-> rd.buf[rd.r + 1], err |-> "",
        reader |-> [rd EXCEPT !.r = @ + 1, !.lastRuneSize = 1]]

\* bufio.Reader.UnreadRune: fails unless the last operation was a ReadRune
\* that returned a rune
UnreadRune(rd) ==
  IF rd.lastRuneSize < 0 \/ rd.r < rd.lastRuneSize
  THEN [err |-> "bufio: invalid use of UnreadRune", reader |-> rd]
  ELSE [err |-> "",
        reader |-> [rd EXCEPT !.r = @ - rd.lastRuneSize, !.lastRuneSize = -1]]

\* ------------------------------------------------------------------ Lexer

Position(line, column) == [line |-> line, column |-> column]

NewLexer(reader) == [pos |-> Position(1, 0), reader |-> reader]

resetPosition(lx) == [lx EXCEPT !.pos = Position(lx.pos.line + 1, 0)]

\* backup without the decrement of the column
backupKeepsColumn(lx) ==
  LET u == UnreadRune(lx.reader)
  IN IF u.err # ""
     THEN [l |-> lx, fatal |-> u.err]
     ELSE [l |-> [lx EXCEPT !.reader = u.reader], fatal |-> ""]

\* Lexer.backup: un-read one rune, or log.Fatal
backup(lx) ==
  LET u == UnreadRune(lx.reader)
  IN IF u.err # ""
     THEN [l |-> lx, fatal |-> u.err]
     ELSE [l |-> [pos |-> Position(lx.pos.line, lx.pos.column - 1),
                  reader |-> u.reader],
           fatal |-> ""]

\* lexInt without the backup of the rune that ends the run
RECURSIVE lexIntLoopNoBackup(_, _)
lexIntLoopNoBackup(lx, lit) ==
  LET rr == ReadRune(lx.reader)
      l1 == [lx EXCEPT !.reader = rr.reader]
  IN IF rr.err # ""
     THEN [lit |-> lit, l |-> l1, fatal |-> IF rr.err = "EOF" THEN "" ELSE rr.err]
     ELSE LET l2 == [l1 EXCEPT !.pos.column = @ + 1]
          IN IF IsDigit(rr.r)
             THEN lexIntLoopNoBackup(l2, Append(lit, rr.r))
             ELSE [lit |-> lit, l |-> l2, fatal |-> ""]

\* the loop of Lexer.lexInt, lit being the digits collected so far
RECURSIVE lexIntLoop(_, _)
lexIntLoop(lx, lit) ==
  LET rr == ReadRune(lx.reader)
      l1 == [lx EXCEPT !.reader = rr.reader]
  IN IF rr.err # ""
     THEN IF rr.err = "EOF"
          THEN [lit |-> lit, l |-> l1, fatal |-> ""]
          ELSE [lit |-> lit, l |-> l1, fatal |-> rr.err]
     ELSE LET l2 == [l1 EXCEPT !.pos.column = @ + 1]
          IN IF IsDigit(rr.r)
             THEN lexIntLoop(l2, Append(lit, rr.r))
             ELSE LET b == backup(l2)
                  IN [lit |-> lit, l |-> b.l, fatal |-> b.fatal]

lexInt(lx) == lexIntLoop(lx, <<>>)

\* Lexer.Lex: the next token, its literal and the lexer afterwards
RECURSIVE Lex(_)
Lex(lx) ==
  LET rr == ReadRune(lx.reader)
      l1 == [lx EXCEPT !.reader = rr.reader]
  IN IF rr.err # ""
     THEN IF rr.err = "EOF"
          THEN [tok |-> EOF, lit |-> <<>>, l |-> l1, fatal |-> ""]
          ELSE [tok |-> EOF, lit |-> <<>>, l |-> l1, fatal |-> rr.err]
     ELSE LET l2 == [l1 EXCEPT !.pos.column = @ + 1]
          IN CASE rr.r = "\n" -> Lex(resetPosition(l2))
               [] rr.r = "+" -> [tok |-> ADD, lit |-> <<"+">>, l |-> l2, fatal |-> ""]
               [] rr.r = "-" -> [tok |-> SUB, lit |-> <<"-">>, l |-> l2, fatal |-> ""]
               [] rr.r = "*" -> [tok |-> MUL, lit |-> <<"*">>, l |-> l2, fatal |-> ""]
               [] rr.r = "/" -> [tok |-> DIV, lit |-> <<"/">>, l |-> l2, fatal |-> ""]
               [] OTHER ->
                    IF IsSpace(rr.r)
                    THEN Lex(l2)
                    ELSE IF IsDigit(rr.r)
                    THEN LET b == backup(l2)
                         IN IF b.fatal # ""
                            THEN [tok |-> INT, lit |-> <<>>, l |-> b.l, fatal |-> b.fatal]
                            ELSE LET li == lexInt(b.l)
                                 IN [tok |-> INT, lit |-> li.lit, l |-> li.l,
                                     fatal |-> li.fatal]
                    ELSE [tok |-> ILLEGAL, lit |-> <<rr.r>>, l |-> l2, fatal |-> ""]

\* ------------------------------------------------------------------ int

MaxInt == 2 ^ (IntBits - 1) - 1
MinInt == 0 - 2 ^ (IntBits - 1)

\* two's-complement wraparound of Go's int
Wrap(x) == ((x - MinInt) % (2 ^ IntBits)) + MinInt

Abs(x) == IF x < 0 THEN 0 - x ELSE x

\* the quotient rounded toward minus infinity instead
GoQuoFloor(x, y) ==
  LET q == Abs(x) \div Abs(y)
  IN Wrap(IF (x < 0) = (y < 0) THEN q
          ELSE IF Abs(x) % Abs(y) = 0 THEN 0 - q ELSE 0 - q - 1)

\* Go's integer quotient x / y for y # 0: truncated toward zero, wrapped
GoQuo(x, y) ==
  LET q == Abs(x) \div Abs(y)
  IN Wrap(IF (x < 0) = (y < 0) THEN q ELSE 0 - q)

DigitValue(c) == (CHOOSE i \in 1..Len(DigitChars) : DigitChars[i] = c) - 1

\* strconv.Atoi with the error dropped: 0 for a string that is no number,
\* the largest int for a digit string out of range
RECURSIVE AtoiLoop(_, _)
AtoiLoop(lit, acc) ==
  IF lit = <<>> THEN acc
  ELSE IF ~IsDigit(Head(lit)) THEN 0
  ELSE LET n == acc * 10 + DigitValue(Head(lit))
       IN IF acc = MaxInt \/ n > MaxInt
          THEN IF \A i \in 1..Len(lit) : IsDigit(lit[i]) THEN MaxInt ELSE 0
          ELSE AtoiLoop(Tail(lit), n)

Atoi(lit) == AtoiLoop(lit, 0)

\* decimal digits of n >= 0
RECURSIVE UDigits(_)
UDigits(n) ==
  IF n < 10 THEN <<DigitChars[n + 1]>>
  ELSE Append(UDigits(n \div 10), DigitChars[(n % 10) + 1])

\* strconv.Itoa
Itoa(n) == IF n < 0 THEN <<"-">> \o UDigits(0 - n) ELSE UDigits(n)

\* ------------------------------------------------------------------ AST

Nil == [kind |-> "nil"]

IntegerLiteral(value, pos) ==
  [kind |-> "IntegerLiteral", Value |-> value, Position |-> pos]

BinaryExpression(left, op, right, pos) ==
  [kind |-> "BinaryExpression", Left |-> left, Op |-> op, Right |-> right,
   Position |-> pos]

\* Node.Pos
Pos(e) == e.Position

\* Node.String: IntegerLiteral.String and BinaryExpression.String
RECURSIVE String(_)
String(e) ==
  IF e.kind = "IntegerLiteral" THEN Itoa(e.Value)
  ELSE <<"(">> \o String(e.Left) \o <<" ", tokens[e.Op], " ">>
       \o String(e.Right) \o <<")">>

\* the operator of a binary node applied to the values of its operands
applyOp(op, left, right) ==
  CASE op = ADD -> [val |-> Wrap(left + right), err |-> ""]
    [] op = SUB -> [val |-> Wrap(left - right), err |-> ""]
    [] op = MUL -> [val |-> Wrap(left * right), err |-> ""]
    [] op = DIV ->
         IF right = 0
         THEN [val |-> 0, err |-> "division by zero"]
         ELSE [val |-> GoQuo(left, right), err |-> ""]
    [] OTHER -> [val |-> 0, err |-> "unknown operator"]

\* evaluateExpression that evaluates both operands before it looks at err
RECURSIVE evaluateWalkEager(_, _)
evaluateWalkEager(e, path) ==
  IF e.kind = "BinaryExpression"
  THEN LET left == evaluateWalkEager(e.Left, Append(path, "L"))
           right == evaluateWalkEager(e.Right, Append(path, "R"))
           calls == <<path>> \o left.calls \o right.calls
       IN IF left.err # "" THEN [val |-> 0, err |-> left.err, calls |-> calls]
          ELSE IF right.err # "" THEN [val |-> 0, err |-> right.err, calls |-> calls]
          ELSE LET res == applyOp(e.Op, left.val, right.val)
               IN [val |-> res.val, err |-> res.err, calls |-> calls]
  ELSE IF e.kind = "IntegerLiteral"
  THEN [val |-> e.Value, err |-> "", calls |-> <<path>>]
  ELSE [val |-> 0, err |-> "unknown expression type", calls |-> <<path>>]

\* evaluateExpression called on the node e that sits at path (the turns, "L"
\* or "R", from the root): [val, err, calls], err = "" standing for nil and
\* calls being the paths of the nodes evaluateExpression was called on, in
\* the order of the calls
RECURSIVE evaluateWalk(_, _)
evaluateWalk(e, path) ==
  IF e.kind = "BinaryExpression"
  THEN LET left == evaluateWalk(e.Left, Append(path, "L"))
       IN IF left.err # ""
          THEN [val |-> 0, err |-> left.err, calls |-> <<path>> \o left.calls]
          ELSE LET right == evaluateWalk(e.Right, Append(path, "R"))
                   calls == <<path>> \o left.calls \o right.calls
               IN IF right.err # ""
                  THEN [val |-> 0, err |-> right.err, calls |-> calls]
                  ELSE LET res == applyOp(e.Op, left.val, right.val)
                       IN [val |-> res.val, err |-> res.err, calls |-> calls]
  ELSE IF e.kind = "IntegerLiteral"
  THEN [val |-> e.Value, err |-> "", calls |-> <<path>>]
  ELSE [val |-> 0, err |-> "unknown expression type", calls |-> <<path>>]

\* evaluateExpression: [val, err]
evaluateExpression(e) ==
  LET res == evaluateWalk(e, <<>>)
  IN [val |-> res.val, err |-> res.err]

\* ------------------------------------------------------------------ state

VARIABLES
  input,   \* the runes standard input holds
  l,       \* the Lexer of main
  pc,      \* where the call chain of main stands
  asLeft,  \* parseAddSubExpr: left ("nil" before the first operand returned)
  asTok,   \* parseAddSubExpr: tok of the iteration under way, NoTok before the loop
  mdLeft,  \* parseMulDivExpr: left
  mdTok,   \* parseMulDivExpr: tok of the iteration under way, NoTok before the loop
  expr,    \* main: expr
  out,     \* the lines written to standard output
  fatal,   \* the message of the log.Fatal call that ended the process
  toks,    \* history: what Lex has returned to the parser, call by call
  peek     \* history: the token the last step handed to backup

vars == <<input, l, pc, asLeft, asTok, mdLeft, mdTok, expr, out, fatal, toks, peek>>

NoTok == 0 - 1
NoFatal == [msg |-> "", arg |-> ""]
NoPeek == [tok |-> NoTok, lit |-> <<>>]

State ==
  [l |-> l, pc |-> pc, asLeft |-> asLeft, asTok |-> asTok, mdLeft |-> mdLeft,
   mdTok |-> mdTok, expr |-> expr, out |-> out, fatal |-> fatal, toks |-> toks,
   peek |-> peek]

\* main up to the call of parseExpression, which enters parseAddSubExpr,
\* parseMulDivExpr and parsePrimaryExpr
Start(buf) ==
  [l |-> NewLexer(NewReader(buf)), pc |-> "primary", asLeft |-> Nil,
   asTok |-> NoTok, mdLeft |-> Nil, mdTok |-> NoTok, expr |-> Nil, out |-> <<>>,
   fatal |-> NoFatal, toks |-> <<>>, peek |-> NoPeek]

\* history entry of a call of Lex by the parser function "by": the token and
\* literal returned, and the reader's cursor before and after the call
Lexed(by, lx, t) ==
  [tok |-> t.tok, lit |-> t.lit, by |-> by, from |-> lx.reader.r,
   to |-> t.l.reader.r]

\* log.Fatal / log.Fatalf: the process ends with the message
Fatal(s, msg, arg) == [s EXCEPT !.pc = "fatal", !.fatal = [msg |-> msg, arg |-> arg]]

\* ------------------------------------------------------------------ parser

\* parsePrimaryExpr without the test of the token: Atoi of whatever came
parsePrimaryExprLenient(lx) ==
  LET t == Lex(lx)
  IN [expr |-> IntegerLiteral(Atoi(t.lit), Position(t.l.pos.line, t.l.pos.column)),
      l |-> t.l, tok |-> t.tok, lit |-> t.lit,
      fatal |-> IF t.fatal # "" THEN [msg |-> t.fatal, arg |-> ""] ELSE NoFatal]

\* parsePrimaryExpr: the literal node, or log.Fatalf
parsePrimaryExpr(lx) ==
  LET t == Lex(lx)
  IN IF t.fatal # ""
     THEN [expr |-> Nil, l |-> t.l, tok |-> t.tok, lit |-> t.lit,
           fatal |-> [msg |-> t.fatal, arg |-> ""]]
     ELSE IF t.tok = INT
     THEN [expr |-> IntegerLiteral(Atoi(t.lit),
                                   Position(t.l.pos.line, t.l.pos.column)),
           l |-> t.l, tok |-> t.tok, lit |-> t.lit, fatal |-> NoFatal]
     ELSE [expr |-> Nil, l |-> t.l, tok |-> t.tok, lit |-> t.lit,
           fatal |-> [msg |-> "Unexpected token: %s", arg |-> tokens[t.tok]]]

\* primaryStep with the new node positioned at its right operand
primaryStepRightPos(s) ==
  LET p == parsePrimaryExpr(s.l)
      s1 == [s EXCEPT !.l = p.l, !.peek = NoPeek,
                      !.toks = Append(@, Lexed("parsePrimaryExpr", s.l, p))]
  IN IF p.fatal # NoFatal
     THEN Fatal(s1, p.fatal.msg, p.fatal.arg)
     ELSE [s1 EXCEPT !.pc = "muldiv",
                     !.mdLeft = IF s.mdTok = NoTok
                                THEN p.expr
                                ELSE BinaryExpression(s.mdLeft, s.mdTok, p.expr,
                                                      Pos(p.expr))]

\* the call of parsePrimaryExpr by parseMulDivExpr, and the assignment of
\* its result to left: the first operand, or the right operand folded in
primaryStep(s) ==
  LET p == parsePrimaryExpr(s.l)
      s1 == [s EXCEPT !.l = p.l, !.peek = NoPeek,
                      !.toks = Append(@, Lexed("parsePrimaryExpr", s.l, p))]
  IN IF p.fatal # NoFatal
     THEN Fatal(s1, p.fatal.msg, p.fatal.arg)
     ELSE [s1 EXCEPT !.pc = "muldiv",
                     !.mdLeft = IF s.mdTok = NoTok
                                THEN p.expr
                                ELSE BinaryExpression(s.mdLeft, s.mdTok, p.expr,
                                                      Pos(s.mdLeft))]

\* one iteration of the loop of parseMulDivExpr up to the next call: on * or /
\* it goes on to the right operand, otherwise it backs up and returns left to
\* parseAddSubExpr, which assigns it (folded in, inside its loop)
mulDivStep(s) ==
  LET t == Lex(s.l)
      s1 == [s EXCEPT !.l = t.l, !.peek = NoPeek,
                      !.toks = Append(@, Lexed("parseMulDivExpr", s.l, t))]
  IN IF t.fatal # ""
     THEN Fatal(s1, t.fatal, "")
     ELSE IF t.tok # MUL /\ t.tok # DIV
     THEN LET b == backup(t.l)
              s2 == [s1 EXCEPT !.l = b.l, !.peek = [tok |-> t.tok, lit |-> t.lit]]
          IN IF b.fatal # ""
             THEN Fatal(s2, b.fatal, "")
             ELSE [s2 EXCEPT !.pc = "addsub",
                             !.mdLeft = Nil,
                             !.mdTok = NoTok,
                             !.asLeft = IF s.asTok = NoTok
                                        THEN s.mdLeft
                                        ELSE BinaryExpression(s.asLeft, s.asTok,
                                                              s.mdLeft, Pos(s.asLeft))]
     ELSE [s1 EXCEPT !.pc = "primary", !.mdTok = t.tok]

\* addSubStep that goes round the loop again where it should return
addSubStepRetry(s) ==
  LET t == Lex(s.l)
      s1 == [s EXCEPT !.l = t.l, !.peek = NoPeek,
                      !.toks = Append(@, Lexed("parseAddSubExpr", s.l, t))]
  IN IF t.fatal # ""
     THEN Fatal(s1, t.fatal, "")
     ELSE IF t.tok # ADD /\ t.tok # SUB
     THEN LET b == backup(t.l)
              s2 == [s1 EXCEPT !.l = b.l, !.peek = [tok |-> t.tok, lit |-> t.lit]]
          IN IF b.fatal # "" THEN Fatal(s2, b.fatal, "") ELSE s2
     ELSE [s1 EXCEPT !.pc = "primary", !.asTok = t.tok]

\* one iteration of the loop of parseAddSubExpr up to the next call: on + or -
\* it enters parseMulDivExpr for the right operand, otherwise it backs up and
\* returns left through parseExpression to main
addSubStep(s) ==
  LET t == Lex(s.l)
      s1 == [s EXCEPT !.l = t.l, !.peek = NoPeek,
                      !.toks = Append(@, Lexed("parseAddSubExpr", s.l, t))]
  IN IF t.fatal # ""
     THEN Fatal(s1, t.fatal, "")
     ELSE IF t.tok # ADD /\ t.tok # SUB
     THEN LET b == backup(t.l)
              s2 == [s1 EXCEPT !.l = b.l, !.peek = [tok |-> t.tok, lit |-> t.lit]]
          IN IF b.fatal # ""
             THEN Fatal(s2, b.fatal, "")
             ELSE [s2 EXCEPT !.pc = "print", !.expr = s.asLeft, !.asLeft = Nil,
                             !.asTok = NoTok]
     ELSE [s1 EXCEPT !.pc = "primary", !.asTok = t.tok]

\* ------------------------------------------------------------------ main

\* fmt.Println(expr)
printStep(s) ==
  [s EXCEPT !.pc = "eval", !.out = Append(@, String(s.expr)), !.peek = NoPeek]

\* evaluateExpression(expr), then log.Fatal(err) or fmt.Println(result)
evalStep(s) ==
  LET res == evaluateExpression(s.expr)
  IN IF res.err # ""
     THEN Fatal(s, res.err, "")
     ELSE [s EXCEPT !.pc = "done", !.out = Append(@, Itoa(res.val))]

Step(s) ==
  CASE s.pc = "primary" -> primaryStep(s)
    [] s.pc = "muldiv" -> mulDivStep(s)
    [] s.pc = "addsub" -> addSubStep(s)
    [] s.pc = "print" -> printStep(s)
    [] s.pc = "eval" -> evalStep(s)
    [] OTHER -> s

\* the whole of main on the input buf: the state the process ends in
RECURSIVE RunFrom(_)
RunFrom(s) == IF s.pc \in {"done", "fatal"} THEN s ELSE RunFrom(Step(s))

Run(buf) == RunFrom(Start(buf))

\* ------------------------------------------------------------------ inputs

Alphabet == {"0", "1", "2", "+", "-", "*", "/", " ", "\n", "&"}

Strings(n) == UNION {[1..k -> Alphabet] : k \in 0..n}

ExprDigits == {"0", "2"}
ExprOps == {"+", "-", "*", "/"}
ExprSeps == {<<>>, <<" ">>, <<"\n">>}
ExprTails == {<<>>, <<"&">>, <<"\n">>}

\* INT (op INT)^k, the tokens separated by sep
RECURSIVE ExprStrings(_, _)
ExprStrings(k, sep) ==
  IF k = 0 THEN {<<d>> : d \in ExprDigits}
  ELSE {e \o sep \o <<o>> \o sep \o <<d>> :
          e \in ExprStrings(k - 1, sep), o \in ExprOps, d \in ExprDigits}

ExprInputs ==
  {e \o t : e \in UNION {ExprStrings(k, sep) : k \in 0..MaxOps, sep \in ExprSeps},
            t \in ExprTails}

Examples ==
  { <<>>,
    <<"2", "+", "3", "*", "4">>,
    <<"2", "*", "3", "+", "4">>,
    <<"1", "-", "2", "-", "3">>,
    <<"7", "/", "2">>,
    <<"5", "/", "0">>,
    <<"3", "&", "4">>,
    <<"1", "+", "2">>,
    <<"1", " ", "+", "\n", "2">>,
    <<"1", " ", "2">>,
    <<"1", "+">>,
    <<"1", "+", "+", "2">>,
    <<"&", "3">>,
    <<"1", "2", "0", "+", "9", "&">>,
    <<"9", "9", "9", "&">>,
    <<" ", "1", "2", "0", "+", "7">>,
    <<"1", "\n", "\n", "*", " ", "2", "0", "\n", "&">>,
    <<"1", "*", "2", "+", "\n", "3", "/", "4", "-", "5", "&">> }

Inputs == Strings(MaxLen) \cup ExprInputs \cup Examples

\* ------------------------------------------------------------------ behaviour

Install(s) ==
  /\ l' = s.l
  /\ pc' = s.pc
  /\ asLeft' = s.asLeft
  /\ asTok' = s.asTok
  /\ mdLeft' = s.mdLeft
  /\ mdTok' = s.mdTok
  /\ expr' = s.expr
  /\ out' = s.out
  /\ fatal' = s.fatal
  /\ toks' = s.toks
  /\ peek' = s.peek
  /\ input' = input

Init ==
  /\ input \in Inputs
  /\ l = Start(input).l
  /\ pc = Start(input).pc
  /\ asLeft = Nil
  /\ asTok = NoTok
  /\ mdLeft = Nil
  /\ mdTok = NoTok
  /\ expr = Nil
  /\ out = <<>>
  /\ fatal = NoFatal
  /\ toks = <<>>
  /\ peek = NoPeek

ParsePrimaryExpr == pc = "primary" /\ Install(primaryStep(State))

ParseMulDivExpr == pc = "muldiv" /\ Install(mulDivStep(State))

ParseAddSubExpr == pc = "addsub" /\ Install(addSubStep(State))

PrintExpr == pc = "print" /\ Install(printStep(State))

Evaluate == pc = "eval" /\ Install(evalStep(State))

Next ==
  \/ ParsePrimaryExpr
  \/ ParseMulDivExpr
  \/ ParseAddSubExpr
  \/ PrintExpr
  \/ Evaluate

Spec == Init /\ [][Next]_vars

\* ------------------------------------------------------------------ evaluator alone

Lit(v) == IntegerLiteral(v, Position(1, 0))

EvalLeaves == {Lit(v) : v \in {MinInt, 0 - 1, 0, 1, 2, MaxInt}}

EvalOps == {ADD, SUB, MUL, DIV}

Joined(ls, rs) ==
  {BinaryExpression(a, o, b, Pos(a)) : a \in ls, o \in EvalOps, b \in rs}

EvalTrees1 == EvalLeaves \cup Joined(EvalLeaves, EvalLeaves)

Bin(a, o, b) == BinaryExpression(a, o, b, Pos(a))

EvalExamples ==
  { Bin(Lit(7), DIV, Lit(2)),
    Bin(Lit(5), DIV, Lit(0)),
    Bin(Bin(Lit(1), SUB, Lit(8)), DIV, Lit(2)),
    Bin(Lit(2), ADD, Bin(Lit(3), MUL, Lit(4))),
    Bin(Bin(Lit(2), MUL, Lit(3)), ADD, Lit(4)),
    Bin(Bin(Lit(5), DIV, Lit(0)), ADD, Bin(Lit(1), DIV, Lit(0))),
    Bin(Bin(Lit(1), SUB, Lit(1)), DIV, Bin(Lit(2), SUB, Lit(2))),
    Bin(Bin(Lit(1), IDENT, Lit(2)), ADD, Bin(Lit(1), DIV, Lit(0))),
    Bin(Bin(Lit(1), DIV, Lit(0)), ADD, Bin(Lit(1), IDENT, Lit(2))) }

\* the trees evaluateExpression is applied to: every tree of depth at most 1
\* over the leaves, and every tree with such a tree on one side of the root
EvalTrees ==
  EvalTrees1 \cup Joined(EvalTrees1, EvalLeaves) \cup Joined(EvalLeaves, EvalTrees1)
    \cup EvalExamples

\* main from fmt.Println(expr) on, for an expr that is any tree
InitEval ==
  /\ input = <<>>
  /\ l = NewLexer(NewReader(<<>>))
  /\ pc = "print"
  /\ asLeft = Nil
  /\ asTok = NoTok
  /\ mdLeft = Nil
  /\ mdTok = NoTok
  /\ expr \in EvalTrees
  /\ out = <<>>
  /\ fatal = NoFatal
  /\ toks = <<>>
  /\ peek = NoPeek

NextEval ==
  \/ PrintExpr
  \/ Evaluate

SpecEval == InitEval /\ [][NextEval]_vars

\* ------------------------------------------------------------------ vocabulary of the properties

Ended == pc \in {"done", "fatal"}

LastTok == toks[Len(toks)]

UnexpectedToken(t) == [msg |-> "Unexpected token: %s", arg |-> tokens[t]]

\* buf is INT (op INT)* with optional white space, read from rune i on in
\* the state st: "need" an operand, "int" inside one, "after" one
RECURSIVE WellFormedFrom(_, _, _)
WellFormedFrom(buf, i, st) ==
  IF i > Len(buf) THEN st \in {"int", "after"}
  ELSE LET c == buf[i]
       IN CASE c \in {"0", "1", "2", "3", "4", "5", "6", "7", "8", "9"} ->
                 st # "after" /\ WellFormedFrom(buf, i + 1, "int")
            [] c \in {" ", "\n"} ->
                 WellFormedFrom(buf, i + 1, IF st = "int" THEN "after" ELSE st)
            [] c \in {"+", "-", "*", "/"} ->
                 st \in {"int", "after"} /\ WellFormedFrom(buf, i + 1, "need")
            [] OTHER -> FALSE

WellFormed(buf) == WellFormedFrom(buf, 1, "need")

\* C1: every input INT (op INT)* with optional white space that ends at
\* end-of-input parses without a fatal abort: the end-of-input token a loop
\* peeks is pushed back and the expression returned, and the run ends with the
\* two output lines unless it ends with the division-by-zero failure.
C1_WellFormedParses ==
  WellFormed(input) =>
    /\ pc = "fatal" => fatal = [msg |-> "division by zero", arg |-> ""]
    /\ peek.tok = EOF => pc # "fatal"
    /\ pc = "done" => Len(out) = 2

\* C2: once the lexer has returned an ILLEGAL token, no tree is returned and
\* nothing is printed, and the run ends with the unexpected-token failure
\* naming ILLEGAL.
C2_IllegalRejected ==
  (\E i \in 1..Len(toks) : toks[i].tok = ILLEGAL) =>
    /\ expr = Nil
    /\ out = <<>>
    /\ Ended => pc = "fatal" /\ fatal = UnexpectedToken(ILLEGAL)

\* C3: a token the parser peeked and handed to backup is the token the next
\* call of Lex returns, kind and literal, whatever its kind.
C3_PushbackRoundTrip ==
  peek # NoPeek =>
    /\ pc # "fatal"
    /\ Lex(l).tok = peek.tok
    /\ Lex(l).lit = peek.lit

IsBinary(e) == e.kind = "BinaryExpression"

\* no node of e joined by * or / has a child joined by + or -
RECURSIVE MulDivRunsAreOperands(_)
MulDivRunsAreOperands(e) ==
  IsBinary(e) =>
    /\ e.Op \in {MUL, DIV} =>
         \A c \in {e.Left, e.Right} : IsBinary(c) => c.Op \in {MUL, DIV}
    /\ MulDivRunsAreOperands(e.Left)
    /\ MulDivRunsAreOperands(e.Right)

\* C4: * and / bind tighter than + and -: a run of operands joined by * or /
\* is one operand of the surrounding + / - chain; "2+3*4" parses to
\* (2 + (3 * 4)) and gives 14, "2*3+4" parses to ((2 * 3) + 4) and gives 10.
C4_Precedence ==
  /\ expr # Nil => MulDivRunsAreOperands(expr)
  /\ (Ended /\ input = <<"2", "+", "3", "*", "4">>) =>
       out = << <<"(", "2", " ", "+", " ", "(", "3", " ", "*", " ", "4", ")", ")">>,
                <<"1", "4">> >>
  /\ (Ended /\ input = <<"2", "*", "3", "+", "4">>) =>
       out = << <<"(", "(", "2", " ", "*", " ", "3", ")", " ", "+", " ", "4", ")">>,
                <<"1", "0">> >>

\* every binary node of e has a right child that is no node of its own tier
RECURSIVE LeftNested(_)
LeftNested(e) ==
  IsBinary(e) =>
    /\ IsBinary(e.Right) => (e.Op \in {ADD, SUB} /\ e.Right.Op \in {MUL, DIV})
    /\ LeftNested(e.Left)
    /\ LeftNested(e.Right)

\* C5: operators of one tier associate left to right: the tree returned is
\* the left-nested chain; "1-2-3" parses to ((1 - 2) - 3).
C5_LeftAssociative ==
  /\ expr # Nil => LeftNested(expr)
  /\ (Ended /\ input = <<"1", "-", "2", "-", "3">>) =>
       /\ Len(out) >= 1
       /\ out[1] = <<"(", "(", "1", " ", "-", " ", "2", ")", " ", "-", " ", "3", ")">>

\* the int congruent to x modulo 2^IntBits
Wrapped(x) == CHOOSE v \in MinInt..MaxInt : (v - x) % (2 ^ IntBits) = 0

\* the quotient of a by b # 0 truncated toward zero: the q whose remainder
\* a - q * b is smaller than b in magnitude and, unless zero, has the sign of a
TruncQuo(a, b) ==
  CHOOSE q \in (MinInt - 1)..(MaxInt + 1) :
    LET r == a - q * b
    IN Abs(r) < Abs(b) /\ (r = 0 \/ (r < 0) = (a < 0))

\* the reference value of a tree on which no divisor is zero
RECURSIVE RefVal(_)
RefVal(e) ==
  IF ~IsBinary(e) THEN e.Value
  ELSE LET a == RefVal(e.Left)
           b == RefVal(e.Right)
       IN CASE e.Op = ADD -> Wrapped(a + b)
            [] e.Op = SUB -> Wrapped(a - b)
            [] e.Op = MUL -> Wrapped(a * b)
            [] e.Op = DIV -> Wrapped(TruncQuo(a, b))

\* the depth-first, left-to-right walk of e reaches a divide node whose right
\* operand has the value zero
RECURSIVE MeetsZeroDivisor(_)
MeetsZeroDivisor(e) ==
  /\ IsBinary(e)
  /\ \/ MeetsZeroDivisor(e.Left)
     \/ MeetsZeroDivisor(e.Right)
     \/ e.Op = DIV /\ RefVal(e.Right) = 0

DivisionByZero == [msg |-> "division by zero", arg |-> ""]

\* C6: on a tree whose walk reaches a divide node with a zero right operand,
\* evaluateExpression returns the division-by-zero failure and main prints no
\* result; "5/0" ends with that failure and without a numeric line.
C6_DivisionByZero ==
  /\ (expr # Nil /\ MeetsZeroDivisor(expr)) =>
       /\ evaluateExpression(expr) = [val |-> 0, err |-> "division by zero"]
       /\ Ended => (fatal = DivisionByZero /\ Len(out) = 1)
  /\ (Ended /\ input = <<"5", "/", "0">>) =>
       (fatal = DivisionByZero /\ Len(out) <= 1)

\* C7: when the token Lex returns to parsePrimaryExpr is no integer literal,
\* the run is over with the unexpected-token failure naming that token, and
\* no tree has been returned and nothing printed.
C7_PrimaryRejectsNonInt ==
  (toks # <<>> /\ LastTok.by = "parsePrimaryExpr" /\ LastTok.tok # INT) =>
    /\ pc = "fatal"
    /\ fatal = UnexpectedToken(LastTok.tok)
    /\ expr = Nil
    /\ out = <<>>

\* C7 happens: "1+" and its like, end-of-input where the right operand is due
C7_Witness ==
  /\ Len(toks) >= 3
  /\ LastTok.by = "parsePrimaryExpr"
  /\ LastTok.tok = EOF
  /\ fatal = UnexpectedToken(EOF)

\* the first rune after the cursor position from that is no white space
FirstBlack(buf, from) ==
  CHOOSE i \in (from + 1)..Len(buf) :
    /\ buf[i] \notin {" ", "\n"}
    /\ \A j \in (from + 1)..(i - 1) : buf[j] \in {" ", "\n"}

IsDecimal(c) == c \in {"0", "1", "2", "3", "4", "5", "6", "7", "8", "9"}

\* C8: the literal of an integer token is the maximal run of digits that
\* starts at the digit Lex met, and the cursor is left right after the run,
\* so that the rune after the run (or end-of-input) is the next one read.
C8_MaximalDigitRun ==
  (toks # <<>> /\ LastTok.tok = INT) =>
    LET start == FirstBlack(input, LastTok.from)
        end == LastTok.to
    IN /\ IsDecimal(input[start])
       /\ end >= start
       /\ LastTok.lit = SubSeq(input, start, end)
       /\ \A k \in start..end : IsDecimal(input[k])
       /\ end = Len(input) \/ ~IsDecimal(input[end + 1])
       /\ l.reader.r = end
       /\ ReadRune(l.reader).r = IF end = Len(input) THEN "" ELSE input[end + 1]

\* C8 happens: a run of two digits or more, after white space, before a rune
\* that is no digit
C8_Witness ==
  /\ toks # <<>>
  /\ LastTok.tok = INT
  /\ Len(LastTok.lit) >= 2
  /\ LastTok.to < Len(input)
  /\ FirstBlack(input, LastTok.from) > LastTok.from + 1

\* buf with its white space removed, but for one blank where white space
\* separates two digits
RECURSIVE CanonFrom(_, _, _, _)
CanonFrom(buf, i, acc, gap) ==
  IF i > Len(buf) THEN acc
  ELSE IF buf[i] \in {" ", "\n"} THEN CanonFrom(buf, i + 1, acc, TRUE)
  ELSE LET sep == IF gap /\ acc # <<>> /\ IsDecimal(acc[Len(acc)]) /\ IsDecimal(buf[i])
                  THEN <<" ">> ELSE <<>>
       IN CanonFrom(buf, i + 1, acc \o sep \o <<buf[i]>>, FALSE)

Canon(buf) == CanonFrom(buf, 1, <<>>, FALSE)

\* a tree without its positions
RECURSIVE StripPos(_)
StripPos(e) ==
  IF e = Nil THEN Nil
  ELSE IF IsBinary(e)
  THEN [kind |-> e.kind, Left |-> StripPos(e.Left), Op |-> e.Op,
        Right |-> StripPos(e.Right)]
  ELSE [kind |-> e.kind, Value |-> e.Value]

\* what a run comes to, positions apart: the tokens the parser was given, the
\* tree returned, the lines printed and the way the run ended
Outcome(s) ==
  [toks |-> [i \in 1..Len(s.toks) |-> <<s.toks[i].tok, s.toks[i].lit>>],
   expr |-> StripPos(s.expr), out |-> s.out, pc |-> s.pc, fatal |-> s.fatal]

\* C9: white space and newlines between tokens are insignificant: a run comes
\* to what the run on the input without them comes to (the same tokens, the
\* same tree or the same failure), so inputs that differ only there agree.
C9_WhitespaceInsignificant ==
  Ended => Outcome(State) = Outcome(Run(Canon(input)))

\* C9 happens: an input with white space between its tokens, parsed to a tree
C9_Witness ==
  /\ pc = "done"
  /\ input # Canon(input)
  /\ IsBinary(expr)
  /\ \E i \in 1..Len(input) : input[i] = "\n"

\* C10: on a tree whose walk meets no zero divisor, evaluateExpression returns
\* the reference value (wraparound sum, difference and product, quotient
\* truncated toward zero) and main prints it; 7/2 is 3 and (1-8)/2 is -3.
C10_EvalMatchesReference ==
  /\ ~MeetsZeroDivisor(expr) =>
       /\ evaluateExpression(expr) = [val |-> RefVal(expr), err |-> ""]
       /\ pc = "done" => (Len(out) = 2 /\ out[2] = Itoa(RefVal(expr)))
  /\ expr = Bin(Lit(7), DIV, Lit(2)) => evaluateExpression(expr).val = 3
  /\ expr = Bin(Bin(Lit(1), SUB, Lit(8)), DIV, Lit(2)) =>
       evaluateExpression(expr).val = 0 - 3

\* C10 happens: the quotient of a negative dividend, printed
C10_Witness ==
  /\ pc = "done"
  /\ expr = Bin(Bin(Lit(1), SUB, Lit(8)), DIV, Lit(2))
  /\ out[2] = <<"-", "3">>

\* the paths of the nodes of e, the root being at path, in depth-first order,
\* a node before its children and the left child before the right
RECURSIVE Preorder(_, _)
Preorder(e, path) ==
  IF IsBinary(e)
  THEN <<path>> \o Preorder(e.Left, Append(path, "L"))
       \o Preorder(e.Right, Append(path, "R"))
  ELSE <<path>>

\* the node of e at path
RECURSIVE NodeAt(_, _)
NodeAt(e, path) ==
  IF path = <<>> THEN e
  ELSE NodeAt(IF Head(path) = "L" THEN e.Left ELSE e.Right, Tail(path))

IsPrefix(p, q) == Len(p) <= Len(q) /\ SubSeq(q, 1, Len(p)) = p

\* C11: evaluation calls on the nodes depth-first, left child before right,
\* and stops at the first failure: below a binary node whose left subtree
\* fails no node of the right subtree is evaluated, and the node returns the
\* failure of its left subtree.
C11_ShortCircuit ==
  LET walk == evaluateWalk(expr, <<>>)
      order == Preorder(expr, <<>>)
  IN /\ IsPrefix(walk.calls, order)
     /\ walk.err = "" => walk.calls = order
     /\ \A i \in 1..Len(walk.calls) :
          LET p == walk.calls[i]
              n == NodeAt(expr, p)
          IN (IsBinary(n) /\ evaluateExpression(n.Left).err # "") =>
               /\ \A j \in 1..Len(walk.calls) :
                    ~IsPrefix(Append(p, "R"), walk.calls[j])
               /\ evaluateWalk(n, p).err = evaluateExpression(n.Left).err
     /\ pc = "fatal" => fatal = [msg |-> walk.err, arg |-> ""]

\* C11 happens: the left operand fails for an unknown operator, the right
\* one would fail for a zero divisor, and the run ended with the former
C11_Witness ==
  /\ pc = "fatal"
  /\ expr = Bin(Bin(Lit(1), IDENT, Lit(2)), ADD, Bin(Lit(1), DIV, Lit(0)))
  /\ fatal = [msg |-> "unknown operator", arg |-> ""]
  /\ evaluateWalk(expr, <<>>).calls = << <<>>, <<"L">>, <<"L", "L">>, <<"L", "R">> >>

\* ------------------------------------------------------------------ lexer alone

\* a Lexer fresh from NewLexer, its methods called in any order
InitLexer ==
  /\ input \in Strings(MaxLen) \cup Examples
  /\ l = NewLexer(NewReader(input))
  /\ pc = "lexer"
  /\ asLeft = Nil
  /\ asTok = NoTok
  /\ mdLeft = Nil
  /\ mdTok = NoTok
  /\ expr = Nil
  /\ out = <<>>
  /\ fatal = NoFatal
  /\ toks = <<>>
  /\ peek = NoPeek

\* the lexer after a call that left it as lx, or the end of the process
Called(lx, msg) ==
  /\ l' = lx
  /\ pc' = IF msg # "" THEN "fatal" ELSE "lexer"
  /\ fatal' = IF msg # "" THEN [msg |-> msg, arg |-> ""] ELSE fatal
  /\ UNCHANGED <<input, asLeft, asTok, mdLeft, mdTok, expr, out, toks, peek>>

CallLex == pc = "lexer" /\ Called(Lex(l).l, Lex(l).fatal)

CallLexInt == pc = "lexer" /\ Called(lexInt(l).l, lexInt(l).fatal)

CallBackup == pc = "lexer" /\ Called(backup(l).l, backup(l).fatal)

NextLexer ==
  \/ CallLex
  \/ CallLexInt
  \/ CallBackup

SpecLexer == InitLexer /\ [][NextLexer]_vars

\* the newlines among the first r runes of buf
Newlines(buf, r) == {i \in 1..r : buf[i] = "\n"}

\* the runes among the first r of buf that follow the last newline among them
SinceNewline(buf, r) ==
  {i \in 1..r : \A j \in Newlines(buf, r) : j < i}

\* C12: whatever calls of Lex, lexInt and backup were made on a new Lexer,
\* the line is 1 plus the number of newlines consumed and the column is the
\* number of runes consumed since the last of them, a rune pushed back not
\* counting as consumed; the column is never negative.
C12_PositionTracksCursor ==
  /\ l.pos.line = 1 + Cardinality(Newlines(input, l.reader.r))
  /\ l.pos.column = Cardinality(SinceNewline(input, l.reader.r))
  /\ l.pos.column >= 0

\* C12 happens: past a newline, with a rune read and pushed back
C12_Witness ==
  /\ pc = "lexer"
  /\ l.pos.line >= 2
  /\ l.pos.column >= 1
  /\ l.reader.lastRuneSize < 0
  /\ l.reader.r < Len(input)

\* ------------------------------------------------------------------ properties, continued

\* the decimal numeral of n: as many digits as |n| needs, a minus sign first
\* for a negative n
Decimal(n) ==
  LET a == IF n < 0 THEN 0 - n ELSE n
      k == CHOOSE d \in 1..10 : a < 10 ^ d /\ (d = 1 \/ a >= 10 ^ (d - 1))
      digits == [i \in 1..k |-> DigitChars[((a \div (10 ^ (k - i))) % 10) + 1]]
  IN IF n < 0 THEN <<"-">> \o digits ELSE digits

OpSymbol(op) ==
  CASE op = ADD -> "+" [] op = SUB -> "-" [] op = MUL -> "*" [] op = DIV -> "/"

\* the rendering a tree is to have
RECURSIVE Rendering(_)
Rendering(e) ==
  IF IsBinary(e)
  THEN <<"(">> \o Rendering(e.Left) \o <<" ">> \o <<OpSymbol(e.Op)>> \o <<" ">>
       \o Rendering(e.Right) \o <<")">>
  ELSE Decimal(e.Value)

\* C13: String renders a literal as its decimal value and a binary node as
\* "(" left " " symbol " " right ")", from the tree alone, and what main
\* prints is that string; the tree parsed from "1+2" renders as "(1 + 2)".
C13_Rendering ==
  /\ expr # Nil =>
       /\ String(expr) = Rendering(StripPos(expr))
       /\ Len(out) >= 1 => out[1] = Rendering(StripPos(expr))
  /\ (Ended /\ input = <<"1", "+", "2">>) =>
       /\ Len(out) >= 1
       /\ out[1] = <<"(", "1", " ", "+", " ", "2", ")">>

\* C14: backup is called only right after a successful read, never twice
\* with no read in between and never after a read that hit end-of-input, so
\* the un-read inside backup never fails.
C14_BackupNeverFails ==
  /\ fatal.msg # "bufio: invalid use of UnreadRune"
  /\ peek # NoPeek => (pc # "fatal" /\ peek.tok \notin {INT, EOF})

\* the literal of e furthest to the left
RECURSIVE Leftmost(_)
Leftmost(e) == IF IsBinary(e) THEN Leftmost(e.Left) ELSE e

\* the shape of a tree of the grammar, positions included
RECURSIVE ParsedShape(_)
ParsedShape(e) ==
  IsBinary(e) =>
    /\ e.Op \in {ADD, SUB, MUL, DIV}
    /\ e.Op \in {MUL, DIV} =>
         /\ ~IsBinary(e.Right)
         /\ IsBinary(e.Left) => e.Left.Op \in {MUL, DIV}
    /\ e.Op \in {ADD, SUB} =>
         (IsBinary(e.Right) => e.Right.Op \notin {ADD, SUB})
    /\ e.Position = Leftmost(e).Position
    /\ ParsedShape(e.Left)
    /\ ParsedShape(e.Right)

\* C15: in every tree parseExpression returns (and every tree under
\* construction) each operator is one of the four, a * or / node has a
\* literal on the right and a literal or a * or / node on the left, a + or -
\* node has no + or - node on the right, and each binary node carries the
\* position of its leftmost literal.
C15_ParsedShape ==
  \A e \in {expr, asLeft, mdLeft} : e # Nil => ParsedShape(e)

\* C15 happens: a returned tree with products on both sides of a sum, its
\* literals on different lines
C15_Witness ==
  /\ pc = "print"
  /\ IsBinary(expr)
  /\ IsBinary(expr.Left)
  /\ IsBinary(expr.Left.Left)
  /\ IsBinary(expr.Left.Right)
  /\ expr.Left.Right.Position.line > expr.Position.line

\* how far the call chain of main is from its end: the runes not yet read,
\* and within them the calls still to come
Variant ==
  6 * (Len(input) - l.reader.r)
    + CASE pc = "primary" -> 5
        [] pc = "muldiv" -> 4
        [] pc = "addsub" -> 3
        [] pc = "print" -> 2
        [] pc = "eval" -> 1
        [] OTHER -> 0

\* C16: the pipeline terminates on every input: every step brings main
\* nearer its end by a measure that cannot fall below zero, an iteration of
\* the muldiv or addsub loop that goes on has consumed an operator and the
\* operand after it an integer token (a pushback never makes an iteration
\* repeat), a run that has not ended has its next step to take (a step waits
\* for nothing but its turn), and a run that returns has printed two lines.
C16_Terminates ==
  /\ [][/\ Variant' < Variant
        /\ l'.reader.r <= Len(input)
        /\ (pc \in {"muldiv", "addsub"} /\ pc' = "primary") =>
             /\ l'.reader.r > l.reader.r
             /\ toks'[Len(toks')].tok \in {ADD, SUB, MUL, DIV}
        /\ (pc = "primary" /\ pc' = "muldiv") =>
             /\ l'.reader.r > l.reader.r
             /\ toks'[Len(toks')].tok = INT]_vars
  /\ [](Variant >= 0)
  /\ [](Ended \/ pc \in {"primary", "muldiv", "addsub", "print", "eval"})
  /\ [](pc = "done" => Len(out) = 2)

\* C16 happens: a run through both loops more than once, ended with its two
\* lines
C16_Witness ==
  /\ pc = "done"
  /\ Len(out) = 2
  /\ \E i, j \in 1..Len(toks) :
       /\ i < j
       /\ toks[i].by = "parseAddSubExpr" /\ toks[i].tok \in {ADD, SUB}
       /\ toks[j].by = "parseMulDivExpr" /\ toks[j].tok \in {MUL, DIV}

====
